---- MODULE Spec2Model ----
(***************************************************************************)
(* Daily word challenge: the server actions of src/src/actions/index.ts    *)
(* over the three tables of the db schema (DailyChallenges,                *)
(* DailyChallengeAttempts, UserChallengeStats).                            *)
(*                                                                         *)
(* A handler is a chain of awaited storage operations; each awaited        *)
(* operation is one atomic step of the call that issues it, and other      *)
(* calls may take steps in between.  Optional values (an omitted input     *)
(* field, a null column, the first element of an empty result) are         *)
(* sequences of length 0 or 1.  Columns no handler ever reads back (word,  *)
(* definition, hint, difficulty, meta, createdAt, updatedAt) are left out  *)
(* of the rows.                                                            *)
(***************************************************************************)
EXTENDS Integers, Sequences, FiniteSets, TLC

\* ---------------------------------------------------------------- bounds
MaxCalls == 4
MaxRaceCalls == 2
MaxApiCalls == 1
MaxPairCalls == 3
MaxDefaultCalls == 3
NumProcs == 2

Procs == 1..NumProcs
Dates == {1, 2}
ChallengeIds == {1, 2}
RaceChallengeIds == {1}
UserIds == {"u1", "u2"}
Guesses == {"", "w"}

\* ------------------------------------------------------- optional values
None == <<>>

Some(x) == <<x>>

\* a ?? b
OrElse(opt, d) == IF opt = None THEN d ELSE opt[1]

Opt(S) == {None} \cup {Some(x) : x \in S}

\* --------------------------------------------------------------- state
VARIABLES
    challenges,   \* DailyChallenges rows, in id order (id = position)
    attempts,     \* DailyChallengeAttempts rows, in id order
    stats,        \* UserChallengeStats rows, in id order
    calls,        \* the calls in flight: one slot per concurrent request
    history,      \* the recordAttempt calls that returned successfully, in order
    nCalls        \* number of recordAttempt handlers started so far

vars == <<challenges, attempts, stats, calls, history, nCalls>>

tables == <<challenges, attempts, stats>>

IdleCall ==
    [op |-> "none", pc |-> "idle", user |-> None, input |-> None,
     challenge |-> None, attempt |-> None, existingStats |-> None,
     result |-> "none", reply |-> <<>>, log |-> <<>>]

Init ==
    /\ challenges = <<>>
    /\ attempts = <<>>
    /\ stats = <<>>
    /\ calls = [p \in Procs |-> IdleCall]
    /\ history = <<>>
    /\ nCalls = 0

\* ------------------------------------------------------------- queries
\* Positions of the rows of a table whose column has a value.
WhereId(table, id) == {i \in 1..Len(table) : table[i].id = id}

WhereUserId(table, userId) == {i \in 1..Len(table) : table[i].userId = userId}

\* The rows a "select ... limit 1" may return, given the positions of the
\* rows that match its where-clause: the query has no ORDER BY, so any
\* matching row may be the one returned; none when nothing matches.
SelectOne(table, matching) ==
    IF matching = {} THEN {None} ELSE {Some(table[i]) : i \in matching}

\* -------------------------------------------------------- requireUser
\* A variant that lets a request without a user through.
requireUser_Anyone(user) == "ok"

\* context.locals.user, or the UNAUTHORIZED error when it is absent.
requireUser(user) == IF user = None THEN "UNAUTHORIZED" ELSE "ok"

\* ------------------------------------------------- the stats transition
\* Math.max
Max(a, b) == IF a >= b THEN a ELSE b

\* Variants of the transition from an existing row, each with one slip:
\* every outcome counted as solved,
UpdatedFromExisting_CountsAll(e, isCorrect, today) ==
    [totalPlayed |-> e.totalPlayed + 1,
     totalSolved |-> e.totalSolved + 1,
     currentStreak |-> IF isCorrect THEN e.currentStreak + 1 ELSE 0,
     bestStreak |-> IF isCorrect THEN Max(e.bestStreak, e.currentStreak + 1)
                    ELSE e.bestStreak,
     lastPlayedDate |-> Some(today),
     lastSolvedDate |-> IF isCorrect THEN Some(today) ELSE e.lastSolvedDate]

\* the streak kept over an incorrect outcome,
UpdatedFromExisting_KeepsStreak(e, isCorrect, today) ==
    [totalPlayed |-> e.totalPlayed + 1,
     totalSolved |-> e.totalSolved + (IF isCorrect THEN 1 ELSE 0),
     currentStreak |-> IF isCorrect THEN e.currentStreak + 1 ELSE e.currentStreak,
     bestStreak |-> IF isCorrect THEN Max(e.bestStreak, e.currentStreak + 1)
                    ELSE e.bestStreak,
     lastPlayedDate |-> Some(today),
     lastSolvedDate |-> IF isCorrect THEN Some(today) ELSE e.lastSolvedDate]

\* the best streak overwritten by the current one,
UpdatedFromExisting_NoMax(e, isCorrect, today) ==
    [totalPlayed |-> e.totalPlayed + 1,
     totalSolved |-> e.totalSolved + (IF isCorrect THEN 1 ELSE 0),
     currentStreak |-> IF isCorrect THEN e.currentStreak + 1 ELSE 0,
     bestStreak |-> IF isCorrect THEN e.currentStreak + 1 ELSE e.bestStreak,
     lastPlayedDate |-> Some(today),
     lastSolvedDate |-> IF isCorrect THEN Some(today) ELSE e.lastSolvedDate]

\* the solved date set by every outcome.
UpdatedFromExisting_SolvedDateAlways(e, isCorrect, today) ==
    [totalPlayed |-> e.totalPlayed + 1,
     totalSolved |-> e.totalSolved + (IF isCorrect THEN 1 ELSE 0),
     currentStreak |-> IF isCorrect THEN e.currentStreak + 1 ELSE 0,
     bestStreak |-> IF isCorrect THEN Max(e.bestStreak, e.currentStreak + 1)
                    ELSE e.bestStreak,
     lastPlayedDate |-> Some(today),
     lastSolvedDate |-> Some(today)]

\* A variant that never raises bestStreak on an existing row.
UpdatedFromExisting_BestFrozen(e, isCorrect, today) ==
    [totalPlayed |-> e.totalPlayed + 1,
     totalSolved |-> e.totalSolved + (IF isCorrect THEN 1 ELSE 0),
     currentStreak |-> IF isCorrect THEN e.currentStreak + 1 ELSE 0,
     bestStreak |-> e.bestStreak,
     lastPlayedDate |-> Some(today),
     lastSolvedDate |-> IF isCorrect THEN Some(today) ELSE e.lastSolvedDate]

\* updatedStats when a stats row was read: the row's counters moved on.
UpdatedFromExisting(e, isCorrect, today) ==
    [totalPlayed |-> e.totalPlayed + 1,
     totalSolved |-> e.totalSolved + (IF isCorrect THEN 1 ELSE 0),
     currentStreak |-> IF isCorrect THEN e.currentStreak + 1 ELSE 0,
     bestStreak |-> IF isCorrect THEN Max(e.bestStreak, e.currentStreak + 1)
                    ELSE e.bestStreak,
     lastPlayedDate |-> Some(today),
     lastSolvedDate |-> IF isCorrect THEN Some(today) ELSE e.lastSolvedDate]

\* updatedStats when no stats row was read: the first row of the user.
UpdatedFromNothing(isCorrect, today, userId) ==
    [totalPlayed |-> 1,
     totalSolved |-> IF isCorrect THEN 1 ELSE 0,
     currentStreak |-> IF isCorrect THEN 1 ELSE 0,
     bestStreak |-> IF isCorrect THEN 1 ELSE 0,
     lastPlayedDate |-> Some(today),
     lastSolvedDate |-> IF isCorrect THEN Some(today) ELSE None,
     userId |-> userId]

\* The object recordAttempt computes from the row it read (or from nothing).
UpdatedStats(existingStats, isCorrect, today, userId) ==
    IF existingStats # None
    THEN UpdatedFromExisting(existingStats[1], isCorrect, today)
    ELSE UpdatedFromNothing(isCorrect, today, userId)

\* {...existingStats, ...updatedStats}: the row written by the update.
MergedRow(existingStats, updated) ==
    [id |-> existingStats[1].id,
     userId |-> existingStats[1].userId,
     totalPlayed |-> updated.totalPlayed,
     totalSolved |-> updated.totalSolved,
     currentStreak |-> updated.currentStreak,
     bestStreak |-> updated.bestStreak,
     lastPlayedDate |-> updated.lastPlayedDate,
     lastSolvedDate |-> updated.lastSolvedDate]

\* db.insert(UserChallengeStats).values(updatedStats): a new row, next id.
InsertedRow(table, updated) ==
    [id |-> Len(table) + 1,
     userId |-> updated.userId,
     totalPlayed |-> updated.totalPlayed,
     totalSolved |-> updated.totalSolved,
     currentStreak |-> updated.currentStreak,
     bestStreak |-> updated.bestStreak,
     lastPlayedDate |-> updated.lastPlayedDate,
     lastSolvedDate |-> updated.lastSolvedDate]

\* update ... where id = existingStats.id
UpdateById(table, row) ==
    [i \in 1..Len(table) |-> IF table[i].id = row.id THEN row ELSE table[i]]

\* --------------------------------------------------------- call slots
Free(p) == calls[p].pc \in {"idle", "done"}

\* A call that has ended: what it was called with and its outcome stay
\* visible, the rows it held are gone.
Ended(op, user, input, result, reply, log) ==
    [op |-> op, pc |-> "done", user |-> user, input |-> input,
     challenge |-> None, attempt |-> None, existingStats |-> None,
     result |-> result, reply |-> reply, log |-> log]

\* ------------------------------------------------------- recordAttempt
\* A variant of the schema without the minimum length of guess.
ValidRecordInput_AnyGuess(input) == TRUE

\* The input schema: guess is a string of at least one character.
ValidRecordInput(input) == input.guess # ""

RecordInputs(ids, IsCorrects, AttemptNumbers) ==
    [challengeId : ids, guess : Guesses,
     isCorrect : IsCorrects, attemptNumber : AttemptNumbers]

\* The request arrives: the input is parsed against the schema, then the
\* handler starts and resolves the user, all before the first await.  At
\* most maxCalls handlers get as far as the first await.
RecordStart(p, user, input, maxCalls) ==
    /\ Free(p)
    /\ IF ~ValidRecordInput(input)
       THEN /\ calls' = [calls EXCEPT ![p] =
                    Ended("recordAttempt", user, Some(input), "BAD_REQUEST", <<>>, <<>>)]
            /\ UNCHANGED nCalls
       ELSE IF requireUser(user) = "UNAUTHORIZED"
       THEN /\ calls' = [calls EXCEPT ![p] =
                    Ended("recordAttempt", user, Some(input), "UNAUTHORIZED", <<>>, <<>>)]
            /\ UNCHANGED nCalls
       ELSE /\ nCalls < maxCalls
            /\ calls' = [calls EXCEPT ![p] =
                    [IdleCall EXCEPT !.op = "recordAttempt",
                                     !.pc = "selectChallenge",
                                     !.user = user,
                                     !.input = Some(input)]]
            /\ nCalls' = nCalls + 1
    /\ UNCHANGED <<challenges, attempts, stats, history>>

\* A variant of the lookup that takes any challenge that exists, active or not.
RecordSelectChallenge_IgnoresActive(p) ==
    /\ calls[p].pc = "selectChallenge"
    /\ LET c == calls[p]
       IN \E challenge \in SelectOne(challenges,
                                     WhereId(challenges, c.input[1].challengeId)) :
            IF challenge = None
            THEN calls' = [calls EXCEPT ![p] =
                     Ended(c.op, c.user, c.input, "NOT_FOUND", <<>>,
                           Append(c.log, "selectChallenge"))]
            ELSE calls' = [calls EXCEPT ![p] =
                     [c EXCEPT !.pc = "insertAttempt",
                               !.challenge = challenge,
                               !.log = Append(c.log, "selectChallenge")]]
    /\ UNCHANGED <<challenges, attempts, stats, history, nCalls>>

\* select from DailyChallenges where id = input.challengeId limit 1,
\* then the NOT_FOUND check.
RecordSelectChallenge(p) ==
    /\ calls[p].pc = "selectChallenge"
    /\ LET c == calls[p]
       IN \E challenge \in SelectOne(challenges,
                                     WhereId(challenges, c.input[1].challengeId)) :
            IF challenge = None \/ ~challenge[1].isActive
            THEN calls' = [calls EXCEPT ![p] =
                     Ended(c.op, c.user, c.input, "NOT_FOUND", <<>>,
                           Append(c.log, "selectChallenge"))]
            ELSE calls' = [calls EXCEPT ![p] =
                     [c EXCEPT !.pc = "insertAttempt",
                               !.challenge = challenge,
                               !.log = Append(c.log, "selectChallenge")]]
    /\ UNCHANGED <<challenges, attempts, stats, history, nCalls>>

\* The values of the inserted attempt row.
AttemptRow(id, userId, input) ==
    [id |-> id,
     challengeId |-> input.challengeId,
     userId |-> userId,
     guess |-> input.guess,
     isCorrect |-> OrElse(input.isCorrect, FALSE),
     attemptNumber |-> OrElse(input.attemptNumber, 1)]

\* A variant of the insert that writes one row per (user, challenge, attempt
\* number): a repeated submission finds its row and adds none.
RecordInsertAttempt_Upsert(p) ==
    /\ calls[p].pc = "insertAttempt"
    /\ LET c == calls[p]
           row == AttemptRow(Len(attempts) + 1, c.user[1], c.input[1])
           same == {i \in 1..Len(attempts) :
                       /\ attempts[i].userId = row.userId
                       /\ attempts[i].challengeId = row.challengeId
                       /\ attempts[i].attemptNumber = row.attemptNumber}
       IN /\ attempts' = IF same = {}
                         THEN Append(attempts, row) ELSE attempts
          /\ calls' = [calls EXCEPT ![p] =
                 [c EXCEPT !.pc = "selectStats",
                           !.attempt = Some(row),
                           !.log = Append(c.log, "insertAttempt")]]
    /\ UNCHANGED <<challenges, stats, history, nCalls>>

\* A variant of the insert that keeps one row per (user, challenge): a later
\* submission overwrites the guess, outcome and number of the earlier row.
RecordInsertAttempt_Overwrite(p) ==
    /\ calls[p].pc = "insertAttempt"
    /\ LET c == calls[p]
           row == AttemptRow(Len(attempts) + 1, c.user[1], c.input[1])
           same == {i \in 1..Len(attempts) :
                       /\ attempts[i].userId = row.userId
                       /\ attempts[i].challengeId = row.challengeId}
       IN /\ attempts' = IF same = {}
                         THEN Append(attempts, row)
                         ELSE [i \in 1..Len(attempts) |->
                                  IF i \in same
                                  THEN [row EXCEPT !.id = attempts[i].id]
                                  ELSE attempts[i]]
          /\ calls' = [calls EXCEPT ![p] =
                 [c EXCEPT !.pc = "selectStats",
                           !.attempt = Some(row),
                           !.log = Append(c.log, "insertAttempt")]]
    /\ UNCHANGED <<challenges, stats, history, nCalls>>

\* insert into DailyChallengeAttempts ... returning
RecordInsertAttempt(p) ==
    /\ calls[p].pc = "insertAttempt"
    /\ LET c == calls[p]
           row == AttemptRow(Len(attempts) + 1, c.user[1], c.input[1])
       IN /\ attempts' = Append(attempts, row)
          /\ calls' = [calls EXCEPT ![p] =
                 [c EXCEPT !.pc = "selectStats",
                           !.attempt = Some(row),
                           !.log = Append(c.log, "insertAttempt")]]
    /\ UNCHANGED <<challenges, stats, history, nCalls>>

\* A variant of the stats select without its where clause: the first row of
\* the table, whoever it belongs to.
RecordSelectStats_AnyUser(p) ==
    /\ calls[p].pc = "selectStats"
    /\ LET c == calls[p]
       IN \E existingStats \in SelectOne(stats, 1..Len(stats)) :
            calls' = [calls EXCEPT ![p] =
                [c EXCEPT !.pc = "writeStats",
                          !.existingStats = existingStats,
                          !.log = Append(c.log, "selectStats")]]
    /\ UNCHANGED <<challenges, attempts, stats, history, nCalls>>

\* select from UserChallengeStats where userId = user.id limit 1
RecordSelectStats(p) ==
    /\ calls[p].pc = "selectStats"
    /\ LET c == calls[p]
       IN \E existingStats \in SelectOne(stats, WhereUserId(stats, c.user[1])) :
            calls' = [calls EXCEPT ![p] =
                [c EXCEPT !.pc = "writeStats",
                          !.existingStats = existingStats,
                          !.log = Append(c.log, "selectStats")]]
    /\ UNCHANGED <<challenges, attempts, stats, history, nCalls>>

\* What a successful call leaves in the history.
HistoryEntry(c) ==
    [userId |-> c.user[1],
     challengeId |-> c.input[1].challengeId,
     guess |-> c.input[1].guess,
     isCorrect |-> c.input[1].isCorrect,
     attemptNumber |-> c.input[1].attemptNumber,
     date |-> c.challenge[1].challengeDate,
     before |-> c.existingStats]

\* A variant of the stats write that takes an omitted isCorrect as true.
RecordWriteStats_OmittedSolves(p) ==
    /\ calls[p].pc = "writeStats"
    /\ LET c == calls[p]
           isCorrect == OrElse(c.input[1].isCorrect, TRUE)
           today == c.challenge[1].challengeDate
           updatedStats == UpdatedStats(c.existingStats, isCorrect, today, c.user[1])
       IN /\ IF c.existingStats # None
             THEN /\ stats' = UpdateById(stats, MergedRow(c.existingStats, updatedStats))
                  /\ calls' = [calls EXCEPT ![p] =
                         Ended(c.op, c.user, c.input, "OK", c.attempt,
                               Append(c.log, "updateStats"))]
             ELSE /\ stats' = Append(stats, InsertedRow(stats, updatedStats))
                  /\ calls' = [calls EXCEPT ![p] =
                         Ended(c.op, c.user, c.input, "OK", c.attempt,
                               Append(c.log, "insertStats"))]
          /\ history' = Append(history, HistoryEntry(c))
    /\ UNCHANGED <<challenges, attempts, nCalls>>

\* The update of the row read, or the insert of a first row; then the
\* handler returns the attempt.
RecordWriteStats(p) ==
    /\ calls[p].pc = "writeStats"
    /\ LET c == calls[p]
           isCorrect == OrElse(c.input[1].isCorrect, FALSE)
           today == c.challenge[1].challengeDate
           updatedStats == UpdatedStats(c.existingStats, isCorrect, today, c.user[1])
       IN /\ IF c.existingStats # None
             THEN /\ stats' = UpdateById(stats, MergedRow(c.existingStats, updatedStats))
                  /\ calls' = [calls EXCEPT ![p] =
                         Ended(c.op, c.user, c.input, "OK", c.attempt,
                               Append(c.log, "updateStats"))]
             ELSE /\ stats' = Append(stats, InsertedRow(stats, updatedStats))
                  /\ calls' = [calls EXCEPT ![p] =
                         Ended(c.op, c.user, c.input, "OK", c.attempt,
                               Append(c.log, "insertStats"))]
          /\ history' = Append(history, HistoryEntry(c))
    /\ UNCHANGED <<challenges, attempts, nCalls>>

\* A variant in which a failure of the stats read or write is caught and the
\* attempt is returned all the same.
StorageFailure_Swallowed(p) ==
    /\ calls[p].pc \in {"selectChallenge", "insertAttempt", "selectStats", "writeStats"}
    /\ IF calls[p].pc \in {"selectStats", "writeStats"}
       THEN calls' = [calls EXCEPT ![p] =
                Ended(calls[p].op, calls[p].user, calls[p].input, "OK",
                      calls[p].attempt, calls[p].log)]
       ELSE calls' = [calls EXCEPT ![p] =
                Ended(calls[p].op, calls[p].user, calls[p].input, "STORAGE_ERROR",
                      <<>>, calls[p].log)]
    /\ UNCHANGED <<challenges, attempts, stats, history, nCalls>>

\* A variant in which a failure of the attempt insert is caught and the call
\* goes on to the stats with no attempt stored.
StorageFailure_InsertSkipped(p) ==
    /\ calls[p].pc \in {"selectChallenge", "insertAttempt", "selectStats", "writeStats"}
    /\ IF calls[p].pc = "insertAttempt"
       THEN calls' = [calls EXCEPT ![p] = [calls[p] EXCEPT !.pc = "selectStats"]]
       ELSE calls' = [calls EXCEPT ![p] =
                Ended(calls[p].op, calls[p].user, calls[p].input, "STORAGE_ERROR",
                      <<>>, calls[p].log)]
    /\ UNCHANGED <<challenges, attempts, stats, history, nCalls>>

\* An awaited storage operation rejects: the error leaves the handler, the
\* operation had no effect, and what the call wrote before stays written.
StorageFailure(p) ==
    /\ calls[p].pc \in {"selectChallenge", "insertAttempt", "selectStats", "writeStats"}
    /\ calls' = [calls EXCEPT ![p] =
           Ended(calls[p].op, calls[p].user, calls[p].input, "STORAGE_ERROR", <<>>, calls[p].log)]
    /\ UNCHANGED <<challenges, attempts, stats, history, nCalls>>

\* ------------------------------------------------ listAttempts, getStats
\* One awaited select after requireUser; the filter on challengeId is applied
\* to the rows in memory, and only when input.challengeId is truthy.
ListAttempts(p, user, challengeId) ==
    /\ Free(p)
    /\ IF requireUser(user) = "UNAUTHORIZED"
       THEN calls' = [calls EXCEPT ![p] =
                Ended("listAttempts", user, Some([challengeId |-> challengeId]), "UNAUTHORIZED", <<>>, <<>>)]
       ELSE LET OfUser(row) == row.userId = user[1]
                OfChallenge(row) == row.challengeId = challengeId[1]
                rows == SelectSeq(attempts, OfUser)
                filtered == IF challengeId # None /\ challengeId[1] # 0
                            THEN SelectSeq(rows, OfChallenge)
                            ELSE rows
            IN calls' = [calls EXCEPT ![p] =
                   Ended("listAttempts", user, Some([challengeId |-> challengeId]), "OK", filtered, <<"selectAttempts">>)]
    /\ UNCHANGED <<challenges, attempts, stats, history, nCalls>>

GetStats(p, user) ==
    /\ Free(p)
    /\ IF requireUser(user) = "UNAUTHORIZED"
       THEN calls' = [calls EXCEPT ![p] =
                Ended("getStats", user, None, "UNAUTHORIZED", <<>>, <<>>)]
       ELSE \E found \in SelectOne(stats, WhereUserId(stats, user[1])) :
                 calls' = [calls EXCEPT ![p] =
                     Ended("getStats", user, None, "OK", found, <<"selectStats">>)]
    /\ UNCHANGED <<challenges, attempts, stats, history, nCalls>>

\* ------------------------------------------------------ the challenges
\* select where challengeDate = date and language = (language ?? "en")
\* limit 1, then the check of the one row returned.
GetActiveChallengeForDate(p, challengeDate, language) ==
    /\ Free(p)
    /\ LET forPair == {i \in 1..Len(challenges) :
                           /\ challenges[i].challengeDate = challengeDate
                           /\ challenges[i].language = OrElse(language, "en")}
       IN \E challenge \in SelectOne(challenges, forPair) :
            IF challenge = None \/ ~challenge[1].isActive
            THEN calls' = [calls EXCEPT ![p] =
                     Ended("getActiveChallengeForDate", None,
                           Some([challengeDate |-> challengeDate, language |-> language]),
                           "NOT_FOUND", <<>>,
                           <<"selectChallenge">>)]
            ELSE calls' = [calls EXCEPT ![p] =
                     Ended("getActiveChallengeForDate", None,
                           Some([challengeDate |-> challengeDate, language |-> language]),
                           "OK", challenge,
                           <<"selectChallenge">>)]
    /\ UNCHANGED <<challenges, attempts, stats, history, nCalls>>

\* insert into DailyChallenges with the defaults of the handler; the row
\* gets the next id, and the table grows only through the ids of ids.
CreateChallenge(challengeDate, language, isActive, ids) ==
    /\ Len(challenges) + 1 \in ids
    /\ challenges' = Append(challenges,
           [id |-> Len(challenges) + 1,
            challengeDate |-> challengeDate,
            language |-> OrElse(language, "en"),
            isActive |-> OrElse(isActive, TRUE)])
    /\ UNCHANGED <<attempts, stats, calls, history, nCalls>>

\* The fields of the input that are not undefined overwrite the row's.
UpdatedChallenge(row, challengeDate, language, isActive) ==
    [id |-> row.id,
     challengeDate |-> OrElse(challengeDate, row.challengeDate),
     language |-> OrElse(language, row.language),
     isActive |-> OrElse(isActive, row.isActive)]

\* Rows are never deleted, so the select that precedes the update finds the
\* row exactly when the update does: the handler acts as one step, at its
\* update.  A missing id (NOT_FOUND) and an input with no field to set (the
\* row is returned as it is) leave the table as it was.
UpdateChallenge(id, challengeDate, language, isActive) ==
    /\ IF id \notin 1..Len(challenges)
       THEN UNCHANGED challenges
       ELSE IF challengeDate = None /\ language = None /\ isActive = None
       THEN UNCHANGED challenges
       ELSE challenges' = [challenges EXCEPT ![id] =
                UpdatedChallenge(challenges[id], challengeDate, language, isActive)]
    /\ UNCHANGED <<attempts, stats, calls, history, nCalls>>

\* ------------------------------------------------------ specifications
\* The challenge ids a request may name: those that can exist and one that
\* never does.
Requested(ids) == ids \cup {Cardinality(ids) + 1}

\* recordAttempt calls by one user overlapping in any way, with storage
\* failures, while a challenge is created and switched on and off.
Next ==
    \/ \E p \in Procs,
          input \in RecordInputs(Requested(RaceChallengeIds), {Some(TRUE), Some(FALSE)}, {None}) :
         ValidRecordInput(input) /\ RecordStart(p, Some("u1"), input, MaxRaceCalls)
    \/ \E p \in Procs : RecordSelectChallenge(p)
    \/ \E p \in Procs : RecordInsertAttempt(p)
    \/ \E p \in Procs : RecordSelectStats(p)
    \/ \E p \in Procs : RecordWriteStats(p)
    \/ \E p \in Procs : StorageFailure(p)
    \/ \E challengeDate \in Dates, isActive \in Opt(BOOLEAN) :
         CreateChallenge(challengeDate, None, isActive, RaceChallengeIds)
    \/ \E id \in Requested(RaceChallengeIds), isActive \in Opt(BOOLEAN) :
         UpdateChallenge(id, None, None, isActive)

Spec == Init /\ [][Next]_vars

\* recordAttempt called by one user, one call after another: a call starts
\* only when the one before has ended, and no storage operation fails.
SeqNext ==
    \/ \E input \in RecordInputs(Requested(ChallengeIds), {Some(TRUE), Some(FALSE)}, {None}) :
         ValidRecordInput(input) /\ RecordStart(1, Some("u1"), input, MaxCalls)
    \/ RecordSelectChallenge(1)
    \/ RecordInsertAttempt(1)
    \/ RecordSelectStats(1)
    \/ RecordWriteStats(1)
    \/ \E challengeDate \in Dates, isActive \in Opt(BOOLEAN) :
         CreateChallenge(challengeDate, None, isActive, ChallengeIds)
    \/ \E id \in Requested(ChallengeIds), isActive \in Opt(BOOLEAN) :
         UpdateChallenge(id, None, None, isActive)

SeqSpec == Init /\ [][SeqNext]_vars

\* Every operation, by two users or by nobody, one call after another.
ApiNext ==
    \/ \E user \in Opt(UserIds),
          input \in RecordInputs(Requested(ChallengeIds), {Some(TRUE), Some(FALSE)}, {None}) :
         RecordStart(1, user, input, MaxApiCalls)
    \/ RecordSelectChallenge(1)
    \/ RecordInsertAttempt(1)
    \/ RecordSelectStats(1)
    \/ RecordWriteStats(1)
    \/ \E user \in Opt(UserIds), challengeId \in Opt({0} \cup ChallengeIds) :
         ListAttempts(1, user, challengeId)
    \/ \E user \in Opt(UserIds) : GetStats(1, user)
    \/ \E challengeDate \in Dates, language \in Opt({"fr"}) :
         GetActiveChallengeForDate(1, challengeDate, language)
    \/ \E challengeDate \in Dates, isActive \in Opt(BOOLEAN) :
         CreateChallenge(challengeDate, None, isActive, ChallengeIds)
    \/ \E id \in Requested(ChallengeIds), isActive \in Opt(BOOLEAN) :
         UpdateChallenge(id, None, None, isActive)

ApiSpec == Init /\ [][ApiNext]_vars

\* recordAttempt called by two users at once: slot 1 carries the calls of u1,
\* slot 2 those of u2, each user one call after another, the two users
\* overlapping in any way; no storage operation fails.
UserOfSlot(p) == IF p = 1 THEN "u1" ELSE "u2"

PairNext ==
    \/ \E p \in {1, 2},
          input \in RecordInputs(RaceChallengeIds, {Some(TRUE), Some(FALSE)}, {None}) :
         ValidRecordInput(input) /\ RecordStart(p, Some(UserOfSlot(p)), input, MaxPairCalls)
    \/ \E p \in {1, 2} : RecordSelectChallenge(p)
    \/ \E p \in {1, 2} : RecordInsertAttempt(p)
    \/ \E p \in {1, 2} : RecordSelectStats(p)
    \/ \E p \in {1, 2} : RecordWriteStats(p)
    \/ \E challengeDate \in Dates :
         CreateChallenge(challengeDate, None, None, RaceChallengeIds)

PairSpec == Init /\ [][PairNext]_vars

\* recordAttempt called by one user, one call after another, with isCorrect
\* and attemptNumber given or left out.
DefaultsNext ==
    \/ \E input \in RecordInputs(RaceChallengeIds, Opt(BOOLEAN), Opt({2})) :
         ValidRecordInput(input) /\ RecordStart(1, Some("u1"), input, MaxDefaultCalls)
    \/ RecordSelectChallenge(1)
    \/ RecordInsertAttempt(1)
    \/ RecordSelectStats(1)
    \/ RecordWriteStats(1)
    \/ \E challengeDate \in Dates :
         CreateChallenge(challengeDate, None, None, RaceChallengeIds)

DefaultsSpec == Init /\ [][DefaultsNext]_vars

\* ------------------------------------------------------------ reading
\* The successful recordAttempt calls of a user, in order.
CallsOf(userId) == SelectSeq(history, LAMBDA e : e.userId = userId)

Correct(e) == e.isCorrect = Some(TRUE)

\* A counter of the row a call read, 0 when it read none.
Played(before) == IF before = None THEN 0 ELSE before[1].totalPlayed

Solved(before) == IF before = None THEN 0 ELSE before[1].totalSolved

Streak(before) == IF before = None THEN 0 ELSE before[1].currentStreak

\* ---------------------------------------------------------------- C1
\* C1: after any number of recordAttempt calls made one after another by a
\* user who started without a stats row, the user has one stats row, its
\* totalPlayed is the number of calls and its totalSolved the number of calls
\* with isCorrect = true; a user who made no call has no row.
C1_TotalsCountCalls ==
    \A u \in UserIds :
        LET mine == CallsOf(u)
            rows == WhereUserId(stats, u)
        IN IF mine = <<>>
           THEN rows = {}
           ELSE /\ Cardinality(rows) = 1
                /\ \A i \in rows :
                     /\ stats[i].totalPlayed = Len(mine)
                     /\ stats[i].totalSolved = Len(SelectSeq(mine, Correct))

\* Three calls or more, some correct and some not.
C1_Witness ==
    \E u \in UserIds :
        LET mine == CallsOf(u)
        IN /\ Len(mine) >= 3
           /\ \E i, j \in 1..Len(mine) : Correct(mine[i]) /\ ~Correct(mine[j])
           /\ \E i \in WhereUserId(stats, u) : stats[i].totalPlayed = Len(mine)

\* ---------------------------------------------------------------- C2
\* C2: the stats write of a call leaves currentStreak at 0 when the outcome is
\* incorrect and at the previous currentStreak + 1 when it is correct (1 when
\* the user had no row), whatever the date of the challenge played and the
\* stored lastPlayedDate.
C2_StreakStep ==
    [][\A p \in Procs :
         (calls[p].pc = "writeStats" /\ calls'[p].result = "OK") =>
            LET u == calls[p].user[1]
                ok == calls[p].input[1].isCorrect = Some(TRUE)
                old == WhereUserId(stats, u)
                new == WhereUserId(stats', u)
            IN /\ Cardinality(new) = 1
               /\ \A j \in new :
                    stats'[j].currentStreak =
                        IF ~ok THEN 0
                        ELSE IF old = {} THEN 1
                        ELSE stats[CHOOSE i \in old : TRUE].currentStreak + 1]_vars

\* A correct outcome on a date before the stored lastPlayedDate has extended
\* a streak.
C2_Witness ==
    /\ history # <<>>
    /\ LET e == history[Len(history)]
       IN /\ Correct(e)
          /\ e.before # None
          /\ e.before[1].currentStreak >= 1
          /\ e.before[1].lastPlayedDate # None
          /\ e.date < e.before[1].lastPlayedDate[1]
          /\ \E i \in WhereUserId(stats, e.userId) :
               stats[i].currentStreak = e.before[1].currentStreak + 1

\* ---------------------------------------------------------------- C3
\* C3: no step lowers the bestStreak of a stats row, and after every step
\* every row has bestStreak >= currentStreak.
C3_BestStreak ==
    [][/\ \A i \in 1..Len(stats) :
            i <= Len(stats') /\ stats'[i].bestStreak >= stats[i].bestStreak
       /\ \A i \in 1..Len(stats') :
            stats'[i].bestStreak >= stats'[i].currentStreak]_vars

\* Correct, correct, incorrect, correct: the best streak stays above the
\* current one.
C3_Witness ==
    \E i \in 1..Len(stats) :
        /\ stats[i].totalPlayed = 4
        /\ stats[i].bestStreak = 2
        /\ stats[i].currentStreak = 1

\* ---------------------------------------------------------------- C4
\* C4: when N calls with isCorrect = true by one user, starting without a
\* stats row, have all returned (every handler started has returned its
\* attempt), the stats rows of the user have totalPlayed = N and
\* currentStreak = N, however the calls overlapped.
C4_ConcurrentCorrectCount ==
    (/\ \A p \in Procs : Free(p)
     /\ history # <<>>
     /\ nCalls = Len(history)
     /\ \A i \in 1..Len(history) : Correct(history[i]))
    => \A u \in UserIds :
         LET mine == CallsOf(u)
         IN mine # <<>> =>
              /\ WhereUserId(stats, u) # {}
              /\ \A j \in WhereUserId(stats, u) :
                   /\ stats[j].totalPlayed = Len(mine)
                   /\ stats[j].currentStreak = Len(mine)

\* ---------------------------------------------------------------- C5
\* C5: in every reachable state the stats table holds at most one row per
\* userId.
C5_OneRowPerUser ==
    \A u \in UserIds : Cardinality(WhereUserId(stats, u)) <= 1

\* ---------------------------------------------------------------- C6
\* No challenge with this id, or an inactive one.
Unavailable(challengeId) ==
    \A i \in 1..Len(challenges) :
        challenges[i].id = challengeId => ~challenges[i].isActive

\* C6: a recordAttempt call whose lookup finds no challenge with its
\* challengeId, or an inactive one, ends at that lookup with NOT_FOUND; the
\* lookup is the only storage operation of the call, and the step leaves the
\* attempts and the stats as they were.
C6_NotFoundNoWrites ==
    [][\A p \in Procs :
         (/\ calls[p].pc = "selectChallenge"
          /\ calls'[p].log = Append(calls[p].log, "selectChallenge")
          /\ Unavailable(calls[p].input[1].challengeId))
         => /\ calls'[p].pc = "done"
            /\ calls'[p].result = "NOT_FOUND"
            /\ calls'[p].reply = <<>>
            /\ calls'[p].log = <<"selectChallenge">>
            /\ attempts' = attempts
            /\ stats' = stats]_vars

\* A call on challenge 1 has ended with NOT_FOUND while the challenge, played
\* before, is switched off.
C6_Witness ==
    \E p \in Procs :
        /\ calls[p].result = "NOT_FOUND"
        /\ calls[p].input[1].challengeId = 1
        /\ Len(challenges) >= 1
        /\ ~challenges[1].isActive
        /\ \E i \in 1..Len(attempts) : attempts[i].challengeId = 1

\* ---------------------------------------------------------------- C7
\* The step by which a call without a user starts.
StartsWithoutUser(p) ==
    /\ Free(p)
    /\ calls'[p] # calls[p]
    /\ calls'[p].op \in {"recordAttempt", "listAttempts", "getStats"}
    /\ calls'[p].user = None

\* Ended with UNAUTHORIZED, no storage operation issued, no table changed.
RefusedUntouched(p) ==
    /\ calls'[p].pc = "done"
    /\ calls'[p].result = "UNAUTHORIZED"
    /\ calls'[p].reply = <<>>
    /\ calls'[p].log = <<>>
    /\ UNCHANGED tables

Written(old, new) ==
    {i \in 1..Len(new) : i > Len(old) \/ new[i] # old[i]}

\* C8: a recordAttempt call returns its attempt only from its stats write,
\* having issued the lookup, one attempt insert, one stats read and one stats
\* write (an insert or an update, of at most one row), in this order; the
\* attempt returned is a row of the table; a call that ends any other way
\* (a storage failure after the insert included) returns no attempt.
C8_InsertThenStatsWrite ==
    [][\A p \in Procs :
         (calls'[p] # calls[p] /\ calls'[p].pc = "done" /\ calls'[p].op = "recordAttempt")
         => IF calls'[p].result = "OK"
            THEN /\ calls[p].pc = "writeStats"
                 /\ calls'[p].log \in
                       {<<"selectChallenge", "insertAttempt", "selectStats", "updateStats">>,
                        <<"selectChallenge", "insertAttempt", "selectStats", "insertStats">>}
                 /\ Len(calls'[p].reply) = 1
                 /\ \E i \in 1..Len(attempts) : attempts[i] = calls'[p].reply[1]
                 /\ attempts' = attempts
                 /\ Len(stats') >= Len(stats)
                 /\ Cardinality(Written(stats, stats')) <= 1
                 /\ calls'[p].log[4] = "insertStats" => Len(stats') = Len(stats) + 1
                 /\ calls'[p].log[4] = "updateStats" => Len(stats') = Len(stats)
            ELSE /\ calls'[p].reply = <<>>
                 /\ attempts' = attempts
                 /\ stats' = stats]_vars

\* One call has returned its attempt, another has failed after its insert.
C8_Witness ==
    \E p, q \in Procs :
        /\ calls[p].result = "OK"
        /\ calls[q].result = "STORAGE_ERROR"
        /\ Len(calls[q].log) >= 2
        /\ calls[q].log[2] = "insertAttempt"

\* ---------------------------------------------------------------- C9
\* The same logical attempt: same user, challenge, guess, outcome, number.
SameAttempt(a, b) ==
    /\ a.userId = b.userId
    /\ a.challengeId = b.challengeId
    /\ a.guess = b.guess
    /\ a.isCorrect = b.isCorrect
    /\ a.attemptNumber = b.attemptNumber

\* The attempt row that records a call of the history.
Records(row, e) ==
    /\ row.userId = e.userId
    /\ row.challengeId = e.challengeId
    /\ row.guess = e.guess
    /\ row.isCorrect = OrElse(e.isCorrect, FALSE)
    /\ row.attemptNumber = OrElse(e.attemptNumber, 1)

\* C9: when the last two successful calls were the same logical attempt, each
\* inserted its own attempt row and the stats count both: totalPlayed is 2
\* above what it was before the first of them, and so are totalSolved and
\* currentStreak when the attempt was correct.
C9_RepeatCountsTwice ==
    LET n == Len(history) IN
    (n >= 2 /\ SameAttempt(history[n - 1], history[n])) =>
        LET first == history[n - 1]
            rows == WhereUserId(stats, first.userId)
        IN /\ Len(attempts) >= n
           /\ Records(attempts[n - 1], first)
           /\ Records(attempts[n], first)
           /\ attempts[n - 1].id # attempts[n].id
           /\ Cardinality(rows) = 1
           /\ \A j \in rows :
                /\ stats[j].totalPlayed = Played(first.before) + 2
                /\ Correct(first) =>
                     /\ stats[j].totalSolved = Solved(first.before) + 2
                     /\ stats[j].currentStreak = Streak(first.before) + 2

\* The same correct attempt was submitted twice running by a user who had
\* played before.
C9_Witness ==
    LET n == Len(history) IN
    /\ n >= 3
    /\ SameAttempt(history[n - 1], history[n])
    /\ Correct(history[n])
    /\ history[n - 1].before # None
    /\ \E j \in WhereUserId(stats, history[n].userId) :
         stats[j].totalPlayed = Played(history[n - 1].before) + 2

\* --------------------------------------------------------------- C10
\* C10: the stats row of a user has lastPlayedDate equal to the date of the
\* challenge of the user's latest call, and lastSolvedDate equal to the date
\* of the challenge of the latest call with isCorrect = true, or null when
\* there was none.
C10_LastDates ==
    \A u \in UserIds :
        LET mine == CallsOf(u)
            solved == SelectSeq(mine, Correct)
        IN mine # <<>> =>
             /\ WhereUserId(stats, u) # {}
             /\ \A j \in WhereUserId(stats, u) :
                  /\ stats[j].lastPlayedDate = Some(mine[Len(mine)].date)
                  /\ stats[j].lastSolvedDate =
                        IF solved = <<>> THEN None
                        ELSE Some(solved[Len(solved)].date)

\* Solved on day 2, then played without success on day 1.
C10_Witness ==
    \E j \in 1..Len(stats) :
        /\ stats[j].lastSolvedDate = Some(2)
        /\ stats[j].lastPlayedDate = Some(1)
        /\ stats[j].currentStreak = 0
        /\ ~Correct(history[Len(history)])

\* --------------------------------------------------------------- C11
\* The counters and dates of a stats row.
Counters(row) ==
    [totalPlayed |-> row.totalPlayed,
     totalSolved |-> row.totalSolved,
     currentStreak |-> row.currentStreak,
     bestStreak |-> row.bestStreak,
     lastPlayedDate |-> row.lastPlayedDate,
     lastSolvedDate |-> row.lastSolvedDate]

\* The stats of a user whose first n calls of mine ran alone, one after
\* another, from an empty table: none before the first call.
RECURSIVE Alone(_, _)
Alone(mine, n) ==
    IF n = 0 THEN None
    ELSE Some(Counters(UpdatedStats(Alone(mine, n - 1),
                                    OrElse(mine[n].isCorrect, FALSE),
                                    mine[n].date, mine[n].userId)))

\* The stats of every user are those of the user's own calls run alone.
EachAsAlone ==
    \A u \in UserIds :
        LET rows == WhereUserId(stats, u)
            alone == Alone(CallsOf(u), Len(CallsOf(u)))
        IN /\ alone = None <=> rows = {}
           /\ \A j \in rows : Some(Counters(stats[j])) = alone

\* C11: a step of a recordAttempt call by user A changes or creates no stats
\* row whose userId is not A, and leaves the userId of every row as it was;
\* with two users submitting at once, in every state the stats of each user
\* are those the user's own calls give when run alone.
C11_UsersDoNotInterfere ==
    /\ [][\A p \in Procs :
            calls'[p] # calls[p] =>
              /\ \A j \in Written(stats, stats') :
                     stats'[j].userId = calls[p].user[1]
              /\ \A j \in 1..Len(stats) : stats'[j].userId = stats[j].userId]_vars
    /\ []EachAsAlone

\* Both users have stats rows, and u2 wrote its row between the stats read
\* and the stats write of a call of u1 that updates a row.
C11_Witness ==
    /\ calls[1].pc = "writeStats"
    /\ calls[1].existingStats # None
    /\ \E j \in WhereUserId(stats, "u2") : stats[j].totalPlayed = 1
    /\ \E i \in 1..Len(history) :
          /\ history[i].userId = "u2"
          /\ history[i].before = None
          /\ Len(attempts) = 3
          /\ attempts[3].userId = "u2"

\* --------------------------------------------------------------- C12
\* C12: no step removes or changes a row of the attempts table: after every
\* step the table has at least the rows it had, and each of them has the
\* challengeId, userId, guess, isCorrect and attemptNumber (and id) it had.
C12_AttemptsAppendOnly ==
    [][/\ Len(attempts') >= Len(attempts)
       /\ \A i \in 1..Len(attempts) :
            /\ attempts'[i].id = attempts[i].id
            /\ SameAttempt(attempts'[i], attempts[i])]_vars

\* Two attempts of different outcome are stored in the order they were
\* inserted; after them a call failed and the challenge was switched off.
C12_Witness ==
    /\ Len(attempts) >= 2
    /\ attempts[1].isCorrect # attempts[2].isCorrect
    /\ Len(challenges) >= 1
    /\ ~challenges[1].isActive
    /\ \E p \in Procs : calls[p].result = "STORAGE_ERROR"

\* --------------------------------------------------------------- C13
\* C13: the attempt row of a call that omits isCorrect has isCorrect = false,
\* and that of a call that omits attemptNumber has attemptNumber = 1 (a value
\* given is stored as given); the stats write of a call that omits isCorrect
\* is that of an incorrect attempt: totalPlayed one more than the row read,
\* totalSolved, bestStreak and lastSolvedDate those of the row read (0, 0 and
\* null without a row), currentStreak 0.
C13_OmittedDefaults ==
    [][\A p \in Procs :
         LET c == calls[p] IN
         /\ (c.pc = "insertAttempt" /\ calls'[p].pc = "selectStats") =>
               LET row == attempts'[Len(attempts')] IN
               /\ Len(attempts') = Len(attempts) + 1
               /\ row.isCorrect = (c.input[1].isCorrect = Some(TRUE))
               /\ row.attemptNumber =
                     (IF c.input[1].attemptNumber = None THEN 1
                      ELSE c.input[1].attemptNumber[1])
         /\ (c.pc = "writeStats" /\ calls'[p].result = "OK"
                                /\ c.input[1].isCorrect = None) =>
               /\ Cardinality(Written(stats, stats')) = 1
               /\ \A j \in Written(stats, stats') :
                    /\ stats'[j].totalPlayed = Played(c.existingStats) + 1
                    /\ stats'[j].totalSolved = Solved(c.existingStats)
                    /\ stats'[j].currentStreak = 0
                    /\ stats'[j].bestStreak =
                          (IF c.existingStats = None THEN 0
                           ELSE c.existingStats[1].bestStreak)
                    /\ stats'[j].lastSolvedDate =
                          (IF c.existingStats = None THEN None
                           ELSE c.existingStats[1].lastSolvedDate)]_vars

\* A call without isCorrect and without attemptNumber, by a user on a streak
\* of two, has returned: its row says incorrect, number 1, and the streak is
\* gone while bestStreak and totalSolved stay at 2.
C13_Witness ==
    /\ Len(history) = 3
    /\ history[3].isCorrect = None
    /\ history[3].attemptNumber = None
    /\ Streak(history[3].before) = 2
    /\ Len(attempts) = 3
    /\ attempts[3].isCorrect = FALSE
    /\ attempts[3].attemptNumber = 1
    /\ attempts[2].attemptNumber = 2
    /\ \E j \in 1..Len(stats) :
          /\ stats[j].currentStreak = 0
          /\ stats[j].bestStreak = 2
          /\ stats[j].totalSolved = 2
          /\ stats[j].totalPlayed = 3

\* --------------------------------------------------------------- C14
\* C14: a recordAttempt call with an empty guess, whoever makes it and
\* whatever challenge it names, ends at once as a validation failure: it
\* issues no storage operation (no challenge lookup), returns nothing, and
\* leaves the three tables as they were; no attempt row ever has an empty
\* guess.
C14_EmptyGuessRejected ==
    [][/\ \A p \in Procs :
            (/\ Free(p)
             /\ calls'[p] # calls[p]
             /\ calls'[p].op = "recordAttempt"
             /\ calls'[p].input[1].guess = "")
            => /\ calls'[p].pc = "done"
               /\ calls'[p].result = "BAD_REQUEST"
               /\ calls'[p].reply = <<>>
               /\ calls'[p].log = <<>>
               /\ UNCHANGED tables
       /\ \A i \in 1..Len(attempts') : attempts'[i].guess # ""]_vars

\* A signed-in user who has played challenge 1, still active, submitted an
\* empty guess for it and was turned away.
C14_Witness ==
    \E p \in Procs :
        /\ calls[p].op = "recordAttempt"
        /\ calls[p].result = "BAD_REQUEST"
        /\ calls[p].user = Some("u1")
        /\ calls[p].input[1].challengeId = 1
        /\ Len(challenges) >= 1
        /\ challenges[1].isActive
        /\ Len(attempts) = 1
        /\ WhereUserId(stats, "u1") # {}

\* --------------------------------------------------------------- C15
\* The orders in which n calls can be taken one at a time.
Orders(n) ==
    {f \in [1..n -> 1..n] : \A i, j \in 1..n : f[i] = f[j] => i = j}

\* The four counters of a stats row.
Totals(row) ==
    [totalPlayed |-> row.totalPlayed,
     totalSolved |-> row.totalSolved,
     currentStreak |-> row.currentStreak,
     bestStreak |-> row.bestStreak]

\* C15: when every recordAttempt handler started has returned its attempt,
\* the calls of a user having overlapped in any way, there is an order of
\* the user's calls such that every stats row of the user has the
\* totalPlayed, totalSolved, currentStreak and bestStreak that the calls
\* give when applied one at a time in that order.
C15_NoLostUpdates ==
    (/\ \A p \in Procs : Free(p)
     /\ history # <<>>
     /\ nCalls = Len(history))
    => \A u \in UserIds :
         LET mine == CallsOf(u)
             n == Len(mine)
         IN n > 0 =>
              /\ WhereUserId(stats, u) # {}
              /\ \E f \in Orders(n) :
                    LET serial == Alone([i \in 1..n |-> mine[f[i]]], n)
                    IN \A j \in WhereUserId(stats, u) :
                         Totals(stats[j]) = Totals(serial[1])

\* --------------------------------------------------------------- C16
\* The attempt rows of a user that are marked correct.
SolvedAttempts(userId) ==
    {i \in WhereUserId(attempts, userId) : attempts[i].isCorrect}

\* C16: in every state, with calls overlapping and failing at any storage
\* operation, every stats row has totalPlayed at most the number of attempt
\* rows of its user and totalSolved at most the number of those rows with
\* isCorrect = true.
C16_NeverOvercounts ==
    \A j \in 1..Len(stats) :
        /\ stats[j].totalPlayed <= Cardinality(WhereUserId(attempts, stats[j].userId))
        /\ stats[j].totalSolved <= Cardinality(SolvedAttempts(stats[j].userId))

\* Two correct attempts are stored, every call has ended, one of them by a
\* failure after its insert, and the stats row counts one played, one solved.
C16_Witness ==
    /\ \A p \in Procs : Free(p)
    /\ Cardinality(SolvedAttempts("u1")) = 2
    /\ \E p \in Procs :
          /\ calls[p].result = "STORAGE_ERROR"
          /\ Len(calls[p].log) >= 2
    /\ Len(stats) = 1
    /\ stats[1].totalPlayed = 1
    /\ stats[1].totalSolved = 1

\* --------------------------------------------------------------- C17
\* C17: in every state, calls of one user overlapping and failing in any
\* way, every stats row has 0 <= totalSolved <= totalPlayed and
\* 0 <= currentStreak <= bestStreak <= totalSolved.
C17_RowInvariants ==
    \A j \in 1..Len(stats) :
        /\ 0 <= stats[j].totalSolved
        /\ stats[j].totalSolved <= stats[j].totalPlayed
        /\ 0 <= stats[j].currentStreak
        /\ stats[j].currentStreak <= stats[j].bestStreak
        /\ stats[j].bestStreak <= stats[j].totalSolved

\* Two overlapping calls, one correct and one not, both read no row and each
\* inserted its own: an update was lost and the user has two rows.
C17_Witness ==
    /\ Len(history) = 2
    /\ history[1].before = None
    /\ history[2].before = None
    /\ Correct(history[1]) # Correct(history[2])
    /\ Len(stats) = 2
    /\ stats[1].bestStreak # stats[2].bestStreak

\* --------------------------------------------------------------- C18
\* C18: whenever a recordAttempt call inserts its attempt row or writes the
\* stats, the challenge it names is stored and active at that moment, also
\* when updateChallenge switches the challenge off while the call runs.
C18_NoWriteForInactive ==
    [][\A p \in Procs :
         (\/ calls[p].pc = "insertAttempt" /\ attempts' # attempts
          \/ calls[p].pc = "writeStats" /\ stats' # stats)
         => ~Unavailable(calls[p].input[1].challengeId)]_vars

\* --------------------------------------------------------------- C19
\* The stored challenges of a date and a language ("en" when none is given)
\* that are active.
ActiveFor(challengeDate, language) ==
    {i \in 1..Len(challenges) :
        /\ challenges[i].challengeDate = challengeDate
        /\ challenges[i].language = OrElse(language, "en")
        /\ challenges[i].isActive}

\* C19: a getActiveChallengeForDate call returns a challenge exactly when an
\* active challenge of its date and language is stored, inactive ones of the
\* same pair notwithstanding; the challenge returned is one of the active
\* ones of the pair, and the call ends with NOT_FOUND otherwise.
C19_ActiveLookup ==
    [][\A p \in Procs :
         (/\ Free(p)
          /\ calls'[p] # calls[p]
          /\ calls'[p].op = "getActiveChallengeForDate")
         => LET input == calls'[p].input[1]
                active == ActiveFor(input.challengeDate, input.language)
            IN IF active # {}
               THEN /\ calls'[p].result = "OK"
                    /\ calls'[p].reply \in {Some(challenges[i]) : i \in active}
               ELSE /\ calls'[p].result = "NOT_FOUND"
                    /\ calls'[p].reply = <<>>]_vars

\* --------------------------------------------------------------- C20
\* The attempt rows of a user, in table order: those of one challenge when
\* a challengeId is given, all of them when none is.
AttemptsOf(userId, challengeId) ==
    SelectSeq(attempts,
              LAMBDA row : /\ row.userId = userId
                           /\ challengeId # None => row.challengeId = challengeId[1])

\* C20: a listAttempts call by a signed-in user returns exactly the attempt
\* rows of that user, those of the given challengeId when one is passed and
\* all of them otherwise; a getStats call by a signed-in user returns a stats
\* row of that user, or null when the user has none; neither changes a table.
C20_ReadsScopedToCaller ==
    [][\A p \in Procs :
         (/\ Free(p)
          /\ calls'[p] # calls[p]
          /\ calls'[p].op \in {"listAttempts", "getStats"}
          /\ calls'[p].user # None)
         => /\ UNCHANGED tables
            /\ calls'[p].result = "OK"
            /\ calls'[p].op = "listAttempts" =>
                 calls'[p].reply =
                    AttemptsOf(calls'[p].user[1], calls'[p].input[1].challengeId)
            /\ calls'[p].op = "getStats" =>
                 calls'[p].reply \in
                    SelectOne(stats, WhereUserId(stats, calls'[p].user[1]))]_vars

====
